---- MODULE Spec2Model ----
(***************************************************************************)
(* Apple Catcher: the Phaser scene (GameScene) and the React shell         *)
(* (AppleCatcherGame) of src/components/AppleCatcherGame.tsx, and the      *)
(* variant of the component that has no start screen (eager = TRUE).       *)
(*                                                                         *)
(* Positions are whole pixels, times whole milliseconds.  One Frame is one *)
(* step of the Phaser game loop: the arcade world integrates the bodies    *)
(* and runs the overlap callback (catchApple), then the scene's            *)
(* update(time) runs.  The clock `time` is the loop's timestamp; it is     *)
(* never reset by the scene.  A sprite's position is its body's.           *)
(*                                                                         *)
(* A definition whose name extends a handler's (EndGameNoPause, ...) is a  *)
(* faulty variant of that handler; no specification uses it.  It shows     *)
(* that a property depends on the handler.                                 *)
(***************************************************************************)
EXTENDS Integers, Sequences, FiniteSets, TLC

\* ---------------------------------------------------------------- constants
InitialInterval == 1500
MinInterval == 500
IntervalStep == 10
BottomY == 600
SpawnY == -50
BaseSpeed == 150
SpeedPerScore == 2
PlateSpeed == 300
PlateStartX == 400
PlateY == 550
PlateWidth == 100
PlateHeight == 20
AppleSize == 30
WorldWidth == 800

\* ------------------------------------------------------------------- bounds
\* Frames of the longest run (Spec, SpecApi, SpecLifecycle) and of the
\* longest run of the difficulty ramp (SpecRamp).
MaxFrames == 12
MaxRampFrames == 160
\* Frames of the longest run of the spawn pacing (SpecPace).
MaxPaceFrames == 270
\* Frames of the longest run with stalls (SpecStall).
MaxStallFrames == 10

\* Frame inputs <<dt, pd>>: the clock advances by dt ms and the arcade world
\* integrates pd ms in one step (Phaser smooths and caps the delta it hands
\* the world, so pd <= dt).
FrameInputs == {<<800, 800>>}
RampInputs == {<<1600, 140>>}
PaceInputs == {<<500, 170>>}
\* Short world steps, and the long step of a frame after a stall.
StallInputs == {<<1600, 100>>, <<1600, 1000>>}
\* Values of Phaser.Math.Between(50, 750) the model draws.
SpawnXs == {160, 400}
RampXs == {400}
PaceXs == {400}
StallXs == {160}

\* The clock stops advancing at MaxTime, and at MaxRampTime in SpecRamp.
LongestDt(inputs) ==
    CHOOSE d \in {in[1] : in \in inputs} : \A in \in inputs : in[1] <= d

MaxTime == MaxFrames * LongestDt(FrameInputs)
MaxRampTime == MaxRampFrames * LongestDt(RampInputs)
MaxPaceTime == MaxPaceFrames * LongestDt(PaceInputs)
MaxStallTime == MaxStallFrames * LongestDt(StallInputs)

VARIABLES
    \* GameScene
    stage,            \* "none" | "constructed" | "inited" | "created"
    score, gameOver, lastAppleTime, appleInterval,
    apples,           \* apples.children.entries: sequence of [id, x, y, vy]
    plateX, plateVX,  \* the plate's body (y is fixed at PlateY)
    paused,           \* physics.pause() / physics.resume()
    gameData,         \* the record shared with the shell: [score, gameOver]
    \* the host runtime
    time,             \* timestamp of the last frame
    held,             \* cursor keys as update() last read them: [left, right]
    \* AppleCatcherGame
    mounted, eager, gameStarted, uiScore, uiGameOver,
    phaserGameRef, sceneRef, hasCleanup,
    liveGames, liveTimers,
    \* history
    op,               \* the operation that ran last
    issuedIn,         \* the phase it ran in
    threw,            \* whether it raised an error
    startedAt,        \* the clock when the session began: create() or a command
    spawned,          \* apples spawned since the scene was constructed/restarted
    caught,           \* ids of the apples catchApple was called for, same span
    endGames          \* calls of endGame(), same span

sceneVars == <<stage, score, gameOver, lastAppleTime, appleInterval, apples,
               plateX, plateVX, paused, gameData, spawned, caught, endGames>>
shellVars == <<mounted, eager, gameStarted, uiScore, uiGameOver, phaserGameRef,
               sceneRef, hasCleanup, liveGames, liveTimers>>
vars == <<sceneVars, shellVars, time, held, op, issuedIn, threw, startedAt>>

\* -------------------------------------------------------------- the scene
\* The scene's state as one record, so that a handler is a function on it.
Scene ==
    [stage |-> stage, score |-> score, gameOver |-> gameOver,
     lastAppleTime |-> lastAppleTime, appleInterval |-> appleInterval,
     apples |-> apples, plateX |-> plateX, plateVX |-> plateVX,
     paused |-> paused, gameData |-> gameData, spawned |-> spawned,
     caught |-> caught, endGames |-> endGames, threw |-> FALSE]

SetScene(s) ==
    /\ stage' = s.stage
    /\ score' = s.score
    /\ gameOver' = s.gameOver
    /\ lastAppleTime' = s.lastAppleTime
    /\ appleInterval' = s.appleInterval
    /\ apples' = s.apples
    /\ plateX' = s.plateX
    /\ plateVX' = s.plateVX
    /\ paused' = s.paused
    /\ gameData' = s.gameData
    /\ spawned' = s.spawned
    /\ caught' = s.caught
    /\ endGames' = s.endGames

\* A scene object right after `new GameScene()`: the field initialisers.
NewScene(data) ==
    [stage |-> "constructed", score |-> 0, gameOver |-> FALSE,
     lastAppleTime |-> 0, appleInterval |-> InitialInterval,
     apples |-> <<>>, plateX |-> PlateStartX, plateVX |-> 0,
     paused |-> FALSE, gameData |-> data, spawned |-> 0, caught |-> {},
     endGames |-> 0, threw |-> FALSE]

NoScene == [NewScene([score |-> 0, gameOver |-> FALSE]) EXCEPT !.stage = "none"]

RemoveAt(seq, i) == SubSeq(seq, 1, i - 1) \o SubSeq(seq, i + 1, Len(seq))

\* updateGameState(): publish score and gameOver into the shared record.
UpdateGameState(s) ==
    IF s.stage \in {"inited", "created"}
    THEN [s EXCEPT !.gameData = [score |-> s.score, gameOver |-> s.gameOver]]
    ELSE s

\* init(data)
SceneInitOp(s) ==
    [s EXCEPT !.stage = "inited", !.score = 0, !.gameOver = FALSE,
              !.lastAppleTime = 0]

\* create()
SceneCreateOp(s) ==
    UpdateGameState([s EXCEPT !.stage = "created", !.plateX = PlateStartX,
                              !.plateVX = 0, !.apples = <<>>])

\* Faulty variants of catchApple: the score is not published; the apples
\* still falling are set to the speed of the new score; the apple is not
\* destroyed.
CatchAppleNoPublish(s, i) ==
    [s EXCEPT !.apples = RemoveAt(@, i),
              !.score = @ + 1,
              !.caught = @ \cup {s.apples[i].id}]

CatchAppleUpdatesSpeeds(s, i) ==
    LET rest == RemoveAt(s.apples, i)
    IN  UpdateGameState(
          [s EXCEPT !.apples = [j \in 1..Len(rest) |->
                                  [rest[j] EXCEPT !.vy = BaseSpeed
                                        + (s.score + 1) * SpeedPerScore]],
                    !.score = @ + 1,
                    !.caught = @ \cup {s.apples[i].id}])

CatchAppleKeepsApple(s, i) ==
    UpdateGameState([s EXCEPT !.score = @ + 1,
                              !.caught = @ \cup {s.apples[i].id}])

\* catchApple(plate, apple) for the apple at index i.
CatchApple(s, i) ==
    UpdateGameState([s EXCEPT !.apples = RemoveAt(@, i),
                              !.score = @ + 1,
                              !.caught = @ \cup {s.apples[i].id}])

\* Faulty variants of endGame: gameOver is not set; physics is not paused.
EndGameNoFlag(s) ==
    UpdateGameState([s EXCEPT !.paused = TRUE, !.endGames = @ + 1])

EndGameNoPause(s) ==
    UpdateGameState([s EXCEPT !.gameOver = TRUE, !.endGames = @ + 1])

\* endGame()
EndGame(s) ==
    UpdateGameState([s EXCEPT !.gameOver = TRUE, !.paused = TRUE,
                              !.endGames = @ + 1])

\* Faulty variant of the ramp: no floor.
NextIntervalNoFloor(i) == i - IntervalStep

\* The difficulty ramp of update(): lower the interval unless at the floor.
NextInterval(i) == IF i > MinInterval THEN i - IntervalStep ELSE i

\* spawnApple() with Phaser.Math.Between(50, 750) = x.
SpawnApple(s, x) ==
    [s EXCEPT !.apples = Append(@, [id |-> s.spawned + 1, x |-> x, y |-> SpawnY,
                                    vy |-> BaseSpeed + s.score * SpeedPerScore]),
              !.spawned = @ + 1]

\* Faulty variants of the forEach: it stops at the first fallen apple; the
\* fallen apple is destroyed as well.
RECURSIVE CheckFallenStopsAtFirst(_, _)
CheckFallenStopsAtFirst(s, i) ==
    IF i > Len(s.apples) THEN s
    ELSE IF s.apples[i].y > BottomY THEN EndGame(s)
         ELSE CheckFallenStopsAtFirst(s, i + 1)

RECURSIVE CheckFallenDestroys(_, _)
CheckFallenDestroys(s, i) ==
    IF i > Len(s.apples) THEN s
    ELSE IF s.apples[i].y > BottomY
         THEN CheckFallenDestroys(
                  EndGame([s EXCEPT !.apples = RemoveAt(@, i)]), i)
         ELSE CheckFallenDestroys(s, i + 1)

\* The forEach of update(): endGame() for every apple below the bottom.
RECURSIVE CheckFallen(_, _)
CheckFallen(s, i) ==
    IF i > Len(s.apples) THEN s
    ELSE CheckFallen(IF s.apples[i].y > BottomY THEN EndGame(s) ELSE s, i + 1)

\* Faulty variants of update: the plate keeps its velocity when no key is
\* held; a spawn is due as soon as the interval has elapsed; no early
\* return when the game is over.
UpdateCoasts(s, t, left, right, x) ==
    IF s.gameOver THEN s
    ELSE LET s1 == [s EXCEPT !.plateVX = IF left THEN -PlateSpeed
                                         ELSE IF right THEN PlateSpeed ELSE @]
             s2 == IF t - s1.lastAppleTime > s1.appleInterval
                   THEN [SpawnApple(s1, x) EXCEPT
                             !.lastAppleTime = t,
                             !.appleInterval = NextInterval(s1.appleInterval)]
                   ELSE s1
         IN  CheckFallen(s2, 1)

UpdateSpawnsAtInterval(s, t, left, right, x) ==
    IF s.gameOver THEN s
    ELSE LET s1 == [s EXCEPT !.plateVX = IF left THEN -PlateSpeed
                                         ELSE IF right THEN PlateSpeed ELSE 0]
             s2 == IF t - s1.lastAppleTime >= s1.appleInterval
                   THEN [SpawnApple(s1, x) EXCEPT
                             !.lastAppleTime = t,
                             !.appleInterval = NextInterval(s1.appleInterval)]
                   ELSE s1
         IN  CheckFallen(s2, 1)

UpdateIgnoresGameOver(s, t, left, right, x) ==
    LET s1 == [s EXCEPT !.plateVX = IF left THEN -PlateSpeed
                                    ELSE IF right THEN PlateSpeed ELSE 0]
        s2 == IF t - s1.lastAppleTime > s1.appleInterval
              THEN [SpawnApple(s1, x) EXCEPT
                        !.lastAppleTime = t,
                        !.appleInterval = NextInterval(s1.appleInterval)]
              ELSE s1
    IN  CheckFallen(s2, 1)

\* update(time) with the cursor keys' state and the spawn position drawn.
Update(s, t, left, right, x) ==
    IF s.gameOver THEN s
    ELSE LET s1 == [s EXCEPT !.plateVX = IF left THEN -PlateSpeed
                                         ELSE IF right THEN PlateSpeed ELSE 0]
             s2 == IF t - s1.lastAppleTime > s1.appleInterval
                   THEN [SpawnApple(s1, x) EXCEPT
                             !.lastAppleTime = t,
                             !.appleInterval = NextInterval(s1.appleInterval)]
                   ELSE s1
         IN  CheckFallen(s2, 1)

\* Faulty variants of restart: the reset state is not published;
\* appleInterval is not reset; the apples are not cleared; physics is not
\* resumed.
RestartNoPublish(s) ==
    IF s.stage # "created"
    THEN [s EXCEPT !.score = 0, !.gameOver = FALSE, !.lastAppleTime = 0,
                   !.appleInterval = InitialInterval, !.threw = TRUE]
    ELSE [s EXCEPT !.score = 0, !.gameOver = FALSE, !.lastAppleTime = 0,
                   !.appleInterval = InitialInterval,
                   !.apples = <<>>, !.plateX = PlateStartX, !.plateVX = 0,
                   !.paused = FALSE, !.spawned = 0, !.caught = {},
                   !.endGames = 0]

RestartKeepsInterval(s) ==
    IF s.stage # "created"
    THEN [s EXCEPT !.score = 0, !.gameOver = FALSE, !.lastAppleTime = 0,
                   !.threw = TRUE]
    ELSE UpdateGameState(
           [s EXCEPT !.score = 0, !.gameOver = FALSE, !.lastAppleTime = 0,
                     !.apples = <<>>, !.plateX = PlateStartX, !.plateVX = 0,
                     !.paused = FALSE, !.spawned = 0, !.caught = {},
                     !.endGames = 0])

RestartKeepsApples(s) ==
    IF s.stage # "created"
    THEN [s EXCEPT !.score = 0, !.gameOver = FALSE, !.lastAppleTime = 0,
                   !.appleInterval = InitialInterval, !.threw = TRUE]
    ELSE UpdateGameState(
           [s EXCEPT !.score = 0, !.gameOver = FALSE, !.lastAppleTime = 0,
                     !.appleInterval = InitialInterval,
                     !.plateX = PlateStartX, !.plateVX = 0,
                     !.paused = FALSE, !.spawned = 0, !.caught = {},
                     !.endGames = 0])

RestartStaysPaused(s) ==
    IF s.stage # "created"
    THEN [s EXCEPT !.score = 0, !.gameOver = FALSE, !.lastAppleTime = 0,
                   !.appleInterval = InitialInterval, !.threw = TRUE]
    ELSE UpdateGameState(
           [s EXCEPT !.score = 0, !.gameOver = FALSE, !.lastAppleTime = 0,
                     !.appleInterval = InitialInterval,
                     !.apples = <<>>, !.plateX = PlateStartX, !.plateVX = 0,
                     !.spawned = 0, !.caught = {},
                     !.endGames = 0])

\* restart().  Before create() has run, this.apples is undefined and
\* `this.apples!.clear` raises a TypeError after the four assignments.
Restart(s) ==
    IF s.stage # "created"
    THEN [s EXCEPT !.score = 0, !.gameOver = FALSE, !.lastAppleTime = 0,
                   !.appleInterval = InitialInterval, !.threw = TRUE]
    ELSE UpdateGameState(
           [s EXCEPT !.score = 0, !.gameOver = FALSE, !.lastAppleTime = 0,
                     !.appleInterval = InitialInterval,
                     !.apples = <<>>, !.plateX = PlateStartX, !.plateVX = 0,
                     !.paused = FALSE, !.spawned = 0, !.caught = {},
                     !.endGames = 0])

\* ------------------------------------------------- the arcade physics world
\* Distance a body with velocity v (px/s) moves in pd ms.
Move(v, pd) == IF v >= 0 THEN (v * pd) \div 1000 ELSE -(((-v) * pd) \div 1000)

\* setCollideWorldBounds(true): the plate's body stays inside the world.
Clamp(x) ==
    LET lo == PlateWidth \div 2
        hi == WorldWidth - PlateWidth \div 2
    IN  IF x < lo THEN lo ELSE IF x > hi THEN hi ELSE x

\* Bounding boxes of the plate and of an apple intersect.
Abs(n) == IF n < 0 THEN -n ELSE n

Overlaps(px, a) ==
    /\ 2 * Abs(a.x - px) < PlateWidth + AppleSize
    /\ 2 * Abs(a.y - PlateY) < PlateHeight + AppleSize

\* The overlap collider: catchApple for every apple that overlaps the plate.
RECURSIVE Collide(_, _)
Collide(s, i) ==
    IF i > Len(s.apples) THEN s
    ELSE IF Overlaps(s.plateX, s.apples[i])
         THEN LET t == CatchApple(s, i)
              IN  Collide(t, IF Len(t.apples) < Len(s.apples) THEN i ELSE i + 1)
         ELSE Collide(s, i + 1)

\* Faulty variant of the world update: the apples' bodies are not moved.
WorldStepApplesStill(s, pd) ==
    IF s.paused THEN s
    ELSE Collide([s EXCEPT !.plateX = Clamp(@ + Move(s.plateVX, pd))], 1)

\* One world update of pd ms; nothing moves while physics is paused.
WorldStep(s, pd) ==
    IF s.paused THEN s
    ELSE Collide([s EXCEPT
            !.plateX = Clamp(@ + Move(s.plateVX, pd)),
            !.apples = [i \in 1..Len(@) |->
                          [@[i] EXCEPT !.y = @ + Move(s.apples[i].vy, pd)]]], 1)

\* ---------------------------------------------------------------- the shell
\* The component instance's state and refs, and the resources it holds.
Shell ==
    [gameStarted |-> gameStarted, uiScore |-> uiScore, uiGameOver |-> uiGameOver,
     phaserGameRef |-> phaserGameRef, sceneRef |-> sceneRef,
     hasCleanup |-> hasCleanup, liveGames |-> liveGames,
     liveTimers |-> liveTimers]

SetShell(h) ==
    /\ gameStarted' = h.gameStarted
    /\ uiScore' = h.uiScore
    /\ uiGameOver' = h.uiGameOver
    /\ phaserGameRef' = h.phaserGameRef
    /\ sceneRef' = h.sceneRef
    /\ hasCleanup' = h.hasCleanup
    /\ liveGames' = h.liveGames
    /\ liveTimers' = h.liveTimers

App == [sh |-> Shell, sc |-> Scene]

\* The effect's body: create the Phaser game, bind the scene, start the
\* scene with the render's gameData, start the polling timer and return the
\* cleanup.  (In the variant without gameStarted the state is TRUE from mount.)
EffectOp(w) ==
    IF w.sh.gameStarted /\ ~w.sh.phaserGameRef
    THEN [sh |-> [w.sh EXCEPT !.phaserGameRef = TRUE, !.sceneRef = TRUE,
                              !.liveGames = @ + 1, !.liveTimers = @ + 1,
                              !.hasCleanup = TRUE],
          sc |-> NewScene([score |-> w.sh.uiScore,
                           gameOver |-> w.sh.uiGameOver])]
    ELSE [w EXCEPT !.sh.hasCleanup = FALSE]

\* Faulty variant of the cleanup: the timer is not cleared.
CleanupOpLeaksTimer(w) ==
    IF ~w.sh.hasCleanup THEN w
    ELSE IF w.sh.phaserGameRef
         THEN [sh |-> [w.sh EXCEPT !.liveGames = @ - 1,
                                   !.phaserGameRef = FALSE,
                                   !.hasCleanup = FALSE],
               sc |-> NoScene]
         ELSE [w EXCEPT !.sh.hasCleanup = FALSE]

\* The cleanup the effect returned: clear the timer, destroy the game.
CleanupOp(w) ==
    IF ~w.sh.hasCleanup THEN w
    ELSE IF w.sh.phaserGameRef
         THEN [sh |-> [w.sh EXCEPT !.liveTimers = @ - 1,
                                   !.liveGames = @ - 1,
                                   !.phaserGameRef = FALSE,
                                   !.hasCleanup = FALSE],
               sc |-> NoScene]
         ELSE [w EXCEPT !.sh.liveTimers = @ - 1, !.sh.hasCleanup = FALSE]

\* The re-render after a handler: the effect runs again when gameStarted,
\* its only dependency, has changed.
Rerender(before, w) ==
    IF w.sh.gameStarted # before.sh.gameStarted THEN EffectOp(w) ELSE w

\* startGame()
StartGameOp(w) ==
    LET h == [w.sh EXCEPT !.gameStarted = TRUE, !.uiScore = 0,
                          !.uiGameOver = FALSE]
        s == IF w.sh.phaserGameRef /\ w.sh.sceneRef THEN Restart(w.sc) ELSE w.sc
    IN  Rerender(w, [sh |-> h, sc |-> s])

\* Faulty variant of gameData.restart: back to the start screen.
GameDataRestartOpToStartScreen(w) ==
    LET s == IF w.sh.sceneRef THEN Restart(w.sc) ELSE w.sc
    IN  IF s.threw THEN [w EXCEPT !.sc = s]
        ELSE Rerender(w, [sh |-> [w.sh EXCEPT !.uiScore = 0,
                                              !.uiGameOver = FALSE,
                                              !.gameStarted = FALSE],
                          sc |-> s])

\* gameData.restart()
GameDataRestartOp(w) ==
    LET s == IF w.sh.sceneRef THEN Restart(w.sc) ELSE w.sc
    IN  IF s.threw THEN [w EXCEPT !.sc = s]
        ELSE Rerender(w, [sh |-> [w.sh EXCEPT !.uiScore = 0,
                                              !.uiGameOver = FALSE,
                                              !.gameStarted = TRUE],
                          sc |-> s])

\* Faulty variant of the timer callback: gameOver is not mirrored.
PollOpScoreOnly(w) ==
    IF w.sh.sceneRef
    THEN [w EXCEPT !.sh.uiScore = w.sc.gameData.score]
    ELSE w

\* The timer callback.
PollOp(w) ==
    IF w.sh.sceneRef
    THEN [w EXCEPT !.sh.uiScore = w.sc.gameData.score,
                   !.sh.uiGameOver = w.sc.gameData.gameOver]
    ELSE w

\* The phase of the game: started is the shell's, over is the scene's.
Phase ==
    IF ~gameStarted THEN "NotStarted"
    ELSE IF gameOver THEN "GameOver" ELSE "Active"

\* What the component renders.
StartOverlayShown == mounted /\ ~gameStarted /\ ~uiGameOver
GameUiShown == mounted /\ gameStarted
GameOverPanelShown == mounted /\ uiGameOver

\* ------------------------------------------------------------------ actions
SetApp(w, name) ==
    /\ SetShell(w.sh)
    /\ SetScene(w.sc)
    /\ op' = name
    /\ issuedIn' = Phase
    /\ threw' = w.sc.threw
    /\ startedAt' = IF name \in {"create", "startGame", "restart"}
                    THEN time ELSE startedAt

InitBase ==
    /\ stage = NoScene.stage
    /\ score = NoScene.score
    /\ gameOver = NoScene.gameOver
    /\ lastAppleTime = NoScene.lastAppleTime
    /\ appleInterval = NoScene.appleInterval
    /\ apples = NoScene.apples
    /\ plateX = NoScene.plateX
    /\ plateVX = NoScene.plateVX
    /\ paused = NoScene.paused
    /\ gameData = NoScene.gameData
    /\ spawned = NoScene.spawned
    /\ caught = NoScene.caught
    /\ endGames = NoScene.endGames
    /\ mounted = FALSE
    /\ gameStarted = FALSE
    /\ uiScore = 0
    /\ uiGameOver = FALSE
    /\ phaserGameRef = FALSE
    /\ sceneRef = FALSE
    /\ hasCleanup = FALSE
    /\ liveGames = 0
    /\ liveTimers = 0
    /\ time = 0
    /\ held = [left |-> FALSE, right |-> FALSE]
    /\ op = "load"
    /\ issuedIn = "NotStarted"
    /\ startedAt = 0
    /\ threw = FALSE

\* AppleCatcherGame.tsx: the game is created once the player has started it.
Init == InitBase /\ eager = FALSE

\* Either variant of the component: the other one has no start screen and
\* creates the game on mount.
InitLifecycle == InitBase /\ eager \in BOOLEAN

\* The component is mounted: first render, then the effect.
Mount ==
    /\ ~mounted
    /\ mounted' = TRUE
    /\ SetApp(EffectOp([App EXCEPT !.sh.gameStarted = eager]), "mount")
    /\ UNCHANGED <<eager, time, held>>

\* The component is unmounted: the cleanup runs; its state and refs are gone.
Unmount ==
    /\ mounted
    /\ mounted' = FALSE
    /\ LET w == CleanupOp(App)
       IN  SetApp([w EXCEPT !.sh.gameStarted = FALSE, !.sh.uiScore = 0,
                            !.sh.uiGameOver = FALSE, !.sh.sceneRef = FALSE],
                  "unmount")
    /\ UNCHANGED <<eager, time, held>>

\* React runs the effect again (cleanup, then the body).
EffectRerun ==
    /\ mounted
    /\ SetApp(EffectOp(CleanupOp(App)), "effect")
    /\ UNCHANGED <<mounted, eager, time, held>>

\* The start command.
StartGame ==
    /\ mounted
    /\ ~eager
    /\ SetApp(StartGameOp(App), "startGame")
    /\ UNCHANGED <<mounted, eager, time, held>>

\* The restart command.
GameDataRestart ==
    /\ mounted
    /\ SetApp(GameDataRestartOp(App), "restart")
    /\ UNCHANGED <<mounted, eager, time, held>>

\* The buttons: a command is issued from the panel that renders its button.
ClickStart == StartOverlayShown /\ StartGame

ClickPlayAgain == GameOverPanelShown /\ GameDataRestart

\* The polling timer fires.
Poll ==
    /\ mounted
    /\ liveTimers > 0
    /\ SetApp(PollOp(App), "poll")
    /\ UNCHANGED <<mounted, eager, time, held>>

\* Phaser boots the scene: init(data), then (after preload) create().
SceneInit ==
    /\ stage = "constructed"
    /\ SetApp([App EXCEPT !.sc = SceneInitOp(@)], "init")
    /\ UNCHANGED <<mounted, eager, time, held>>

SceneCreate ==
    /\ stage = "inited"
    /\ SetApp([App EXCEPT !.sc = SceneCreateOp(@)], "create")
    /\ UNCHANGED <<mounted, eager, time, held>>

\* One step of the game loop of a running scene.
Frame(in, limit, left, right, x) ==
    /\ stage = "created"
    /\ time + in[1] <= limit
    /\ time' = time + in[1]
    /\ SetApp([App EXCEPT
                 !.sc = Update(WorldStep(@, in[2]), time + in[1], left, right, x)],
              "frame")
    /\ held' = IF gameOver THEN held ELSE [left |-> left, right |-> right]
    /\ UNCHANGED <<mounted, eager>>

PlayFrame ==
    \E in \in FrameInputs, left \in BOOLEAN, right \in BOOLEAN, x \in SpawnXs :
        Frame(in, MaxTime, left, right, x)

RampFrame ==
    \E in \in RampInputs, x \in RampXs :
        Frame(in, MaxRampTime, FALSE, FALSE, x)

\* A frame every 500 ms: the clock meets the spawn interval exactly at
\* 1500, 1000 and 500.
PaceFrame ==
    \E in \in PaceInputs, x \in PaceXs :
        Frame(in, MaxPaceTime, FALSE, FALSE, x)

LiveFrame ==
    \E in \in FrameInputs, x \in SpawnXs :
        Frame(in, MaxTime, FALSE, FALSE, x)

\* Apples spawned close together, away from the plate, and world steps
\* long enough for several of them to pass the bottom in one frame.
StallFrame ==
    \E in \in StallInputs, x \in StallXs :
        Frame(in, MaxStallTime, FALSE, FALSE, x)

\* ----------------------------------------------------------- specifications
\* The application as wired: commands come from the rendered buttons.
Next ==
    \/ Mount \/ Unmount \/ ClickStart \/ ClickPlayAgain \/ Poll
    \/ SceneInit \/ SceneCreate \/ PlayFrame

Spec == Init /\ [][Next]_vars

\* The command surface: start and restart may be issued at any time.
NextApi ==
    \/ Mount \/ Unmount \/ StartGame \/ GameDataRestart \/ Poll
    \/ SceneInit \/ SceneCreate \/ PlayFrame

SpecApi == Init /\ [][NextApi]_vars

\* A long session of the difficulty ramp.
NextRamp ==
    \/ Mount \/ ClickStart \/ ClickPlayAgain \/ Poll
    \/ SceneInit \/ SceneCreate \/ RampFrame

SpecRamp == Init /\ [][NextRamp]_vars

\* A long session of the spawn pacing.
NextPace ==
    \/ Mount \/ ClickStart \/ ClickPlayAgain \/ Poll
    \/ SceneInit \/ SceneCreate \/ PaceFrame

SpecPace == Init /\ [][NextPace]_vars

\* Sessions with stalled frames.
NextStall ==
    \/ Mount \/ ClickStart \/ ClickPlayAgain \/ Poll
    \/ SceneInit \/ SceneCreate \/ StallFrame

SpecStall == Init /\ [][NextStall]_vars

\* The component's life cycle, for both variants of the component.
NextLifecycle ==
    \/ Mount \/ Unmount \/ EffectRerun \/ StartGame \/ GameDataRestart \/ Poll
    \/ SceneInit \/ SceneCreate \/ PlayFrame

SpecLifecycle == InitLifecycle /\ [][NextLifecycle]_vars

\* Sessions in which no key is held: the plate stays where apples with
\* x = 400 are caught and the others are missed.
NextLive ==
    \/ Mount \/ Unmount \/ ClickStart \/ ClickPlayAgain \/ Poll
    \/ SceneInit \/ SceneCreate \/ LiveFrame

\* The clock step of LiveFrame.  A step of NextLive advances the clock
\* exactly when it is a LiveFrame step, and LiveFrame is enabled exactly
\* when its clock step is (update is total), so WF_time(FrameTick) is weak
\* fairness of LiveFrame.
FrameTick ==
    \E in \in FrameInputs :
        /\ stage = "created"
        /\ time + in[1] <= MaxTime
        /\ time' = time + in[1]

\* These sessions under the host's scheduling: the game loop keeps
\* delivering frames to a running scene, the polling timer keeps firing
\* while it is live, and Phaser finishes booting a scene it has started.
SpecLive ==
    /\ Init /\ [][NextLive]_vars
    /\ WF_time(FrameTick) /\ WF_vars(Poll)
    /\ WF_vars(SceneInit) /\ WF_vars(SceneCreate)

\* ------------------------------------------------------------------ claims
\* The operations that start a new session or discard the scene.
RestartOps == {"restart", "startGame"}
DiscardOps == {"mount", "unmount", "effect"}

\* The scene's state after start: init(data) and create() on a new scene.
PostStart == SceneCreateOp(SceneInitOp(NewScene(gameData)))

SameGame(s, u) ==
    /\ s.score = u.score
    /\ s.gameOver = u.gameOver
    /\ s.apples = u.apples
    /\ s.appleInterval = u.appleInterval
    /\ s.lastAppleTime = u.lastAppleTime
    /\ s.plateX = u.plateX
    /\ s.plateVX = u.plateVX
    /\ s.paused = u.paused

Fallen(as) == \E i \in 1..Len(as) : as[i].y > BottomY

\* C1: within a session (no restart, no new scene) the score never
\* decreases, and once gameOver is true it does not change until a restart.
C1_ScoreMonotoneAndFrozen ==
    [][op' \notin RestartOps \cup DiscardOps
         => /\ score' >= score
            /\ gameOver => score' = score]_vars

\* A frame ran while the game was over, with a score above 0 and apples left.
C1_Witness ==
    /\ op = "frame" /\ issuedIn = "GameOver"
    /\ gameOver /\ score >= 1 /\ Len(apples) >= 2

\* C2: 500 <= appleInterval <= 1500 in every state, and only a restart (or a
\* new scene) raises it: every other operation leaves it or lowers it.
C2_IntervalBoundedAndNonIncreasing ==
    /\ [](MinInterval <= appleInterval /\ appleInterval <= InitialInterval)
    /\ [][op' \notin RestartOps \cup DiscardOps
            => appleInterval' <= appleInterval]_vars

\* A spawn at the floor: the 101st apple of a session, the interval still 500.
C2_Witness ==
    /\ op = "frame" /\ appleInterval = MinInterval
    /\ spawned > (InitialInterval - MinInterval) \div IntervalStep
    /\ lastAppleTime = time

\* C3: a frame of an Active game ends with gameOver true exactly when an
\* uncaught apple is below the bottom (y > 600), and nothing but such a
\* frame sets gameOver.
C3_GameOverExactlyOnFall ==
    /\ [][(op' = "frame" /\ ~gameOver) => (gameOver' <=> Fallen(apples'))]_vars
    /\ [][(~gameOver /\ gameOver') => op' = "frame"]_vars

\* The frame in which an apple fell ended an Active game.
C3_Witness ==
    /\ op = "frame" /\ issuedIn = "Active"
    /\ gameOver /\ Fallen(apples)

\* C4: every catchApple call is for an apple not caught before, adds exactly
\* one to the score and removes the apple: the score is the number of
\* distinct apples caught and no caught apple is still in the collection.
C4_CatchCountsOnce ==
    stage = "created" =>
        /\ score = Cardinality(caught)
        /\ \A i \in 1..Len(apples) : apples[i].id \notin caught
        /\ \A i, j \in 1..Len(apples) : apples[i].id = apples[j].id => i = j

\* Two apples have been caught and others are still falling.
C4_Witness ==
    /\ op = "frame" /\ score >= 2 /\ Cardinality(caught) = score
    /\ Len(apples) >= 1

\* C5: restart() on a created scene leaves the state of a scene just
\* started, and the shared record shows score 0 and gameOver false.
C5_RestartEqualsStart ==
    [][(op' \in RestartOps /\ stage = "created" /\ stage' = "created"
        /\ (op' = "startGame" => phaserGameRef /\ sceneRef))
         => /\ SameGame(Scene', PostStart')
            /\ score' = 0 /\ ~gameOver' /\ apples' = <<>>
            /\ appleInterval' = InitialInterval /\ lastAppleTime' = 0
            /\ plateX' = PlateStartX /\ plateVX' = 0
            /\ gameData' = [score |-> 0, gameOver |-> FALSE]]_vars

\* A restart was issued on a created scene after frames had run.
C5_Witness ==
    /\ op = "restart" /\ stage = "created" /\ ~threw
    /\ issuedIn = "GameOver" /\ time > 0 /\ score = 0 /\ apples = <<>>

\* C6: without a mount or unmount, the phase changes only NotStarted ->
\* Active by the start command, Active -> GameOver by a frame in which an
\* apple fell, and GameOver -> Active by the restart command.
C6_PhaseTransitions ==
    [][(op' \notin DiscardOps /\ Phase' # Phase)
         => \/ Phase = "NotStarted" /\ Phase' = "Active" /\ op' = "startGame"
            \/ Phase = "Active" /\ Phase' = "GameOver" /\ op' = "frame"
                 /\ Fallen(apples')
            \/ Phase = "GameOver" /\ Phase' = "Active" /\ op' = "restart"]_vars

\* A game that was over is Active again after the restart command.
C6_Witness ==
    /\ op = "restart" /\ issuedIn = "GameOver" /\ Phase = "Active"
    /\ stage = "created"

\* C7 as stated: start or restart issued while Active changes nothing of
\* the game.
C7_CommandWhileActiveIsNoOp ==
    [][(op' \in RestartOps /\ Phase = "Active")
         => UNCHANGED <<score, apples, appleInterval, lastAppleTime, plateX>>]_vars

\* C7 amended: start or restart issued while Active on a created scene
\* resets the game to the state after start, and issuing the command once
\* more changes nothing further.
C7_CommandWhileActiveResetsIdempotently ==
    [][(op' \in RestartOps /\ Phase = "Active" /\ stage = "created")
         => /\ SameGame(Scene', PostStart')
            /\ SameGame(GameDataRestartOp(App').sc, Scene')
            /\ SameGame(StartGameOp(App').sc, Scene')
            /\ GameDataRestartOp(App').sh = Shell'
            /\ StartGameOp(App').sh = Shell']_vars

\* A command was issued in an Active game on a created scene.
C7_Witness ==
    /\ op \in RestartOps /\ issuedIn = "Active" /\ stage = "created"
    /\ ~threw /\ time > 0

\* C8 as stated: a restart command before the game is initialized changes
\* neither the shell's state nor the scene's and raises no error.
C8_RestartBeforeInitIsNoOp ==
    [][(op' = "restart" /\ (~gameStarted \/ stage # "created"))
         => /\ UNCHANGED <<sceneVars, shellVars>>
            /\ ~threw']_vars

\* C9: while gameOver is true no frame changes anything of the world, and
\* nothing but a restart (or discarding the scene) changes it.
C9_FrozenWhileGameOver ==
    [][(gameOver /\ op' \notin RestartOps \cup DiscardOps)
         => UNCHANGED sceneVars]_vars

\* A frame ran in a game that was over although a spawn was due.
C9_Witness ==
    /\ op = "frame" /\ issuedIn = "GameOver" /\ gameOver
    /\ time - lastAppleTime > appleInterval

\* C10: at most one Phaser game and one polling timer are live, and none
\* once the component is unmounted.
C10_AtMostOneGameAndTimer ==
    /\ liveGames <= 1
    /\ liveTimers <= 1
    /\ ~mounted => liveGames = 0 /\ liveTimers = 0

\* The component was unmounted after its game had run frames.
C10_Witness ==
    /\ op = "unmount" /\ ~mounted /\ issuedIn # "NotStarted" /\ time > 0

\* A further frame can be delivered to the running scene.
FramesDelivered ==
    stage = "created" /\ time + LongestDt(FrameInputs) <= MaxTime

\* C11: restart() in the GameOver state leaves score 0, gameOver false, no
\* apples and physics running; and when frames are still delivered to the
\* scene, update() processes them again: a new apple is eventually spawned
\* (unless the component is unmounted first).
C11_RestartResumes ==
    /\ [][(op' = "restart" /\ gameOver /\ stage = "created")
            => /\ score' = 0 /\ ~gameOver' /\ ~paused'
               /\ apples' = <<>> /\ spawned' = 0]_vars
    /\ (op = "restart" /\ issuedIn = "GameOver" /\ FramesDelivered)
          ~> (spawned > 0 \/ stage # "created")

\* The game was restarted from GameOver and frames can still be delivered.
C11_Witness ==
    /\ op = "restart" /\ issuedIn = "GameOver" /\ stage = "created"
    /\ spawned = 0 /\ ~paused /\ FramesDelivered

IdsOf(as) == {as[i].id : i \in 1..Len(as)}

\* C12 as stated: after the frame that ends the game, the apple that
\* crossed the bottom boundary is no longer in the collection.
C12_MissedAppleRemoved ==
    [][(op' = "frame" /\ ~gameOver /\ gameOver') => ~Fallen(apples')]_vars

\* C12 amended: within a session an apple leaves the collection only by
\* being caught, and a caught apple does leave it; the apple that ends the
\* game stays in the collection, where it was, until a restart clears it.
C12_OnlyCaughtApplesRemoved ==
    /\ [][op' = "frame"
            => /\ IdsOf(apples) \subseteq IdsOf(apples') \cup caught'
               /\ IdsOf(apples') \cap caught' = {}]_vars
    /\ [][(op' = "frame" /\ ~gameOver /\ gameOver') => Fallen(apples')]_vars
    /\ [][(gameOver /\ op' \notin RestartOps \cup DiscardOps)
            => apples' = apples]_vars
    /\ [][(gameOver /\ op' = "restart" /\ stage = "created")
            => apples' = <<>>]_vars

\* The game has been over for a frame, one apple was caught before, and
\* the apple that fell is still in the collection.
C12_Witness ==
    /\ op = "frame" /\ issuedIn = "GameOver" /\ gameOver
    /\ caught # {} /\ Fallen(apples)

Max(a, b) == IF a >= b THEN a ELSE b

\* C13: a frame of an Active game spawns exactly one apple when
\* now - lastAppleTime > appleInterval, sets lastAppleTime to now and
\* appleInterval to max(500, appleInterval - 10); otherwise it spawns none
\* and leaves both.  So after the k-th spawn of a session appleInterval is
\* max(500, 1500 - 10 * k).
C13_SpawnRule ==
    /\ [][(op' = "frame" /\ ~gameOver)
            => IF time' - lastAppleTime > appleInterval
               THEN /\ spawned' = spawned + 1
                    /\ IdsOf(apples') \ IdsOf(apples) = {spawned'}
                    /\ lastAppleTime' = time'
                    /\ appleInterval'
                         = Max(MinInterval, appleInterval - IntervalStep)
               ELSE /\ spawned' = spawned
                    /\ IdsOf(apples') \subseteq IdsOf(apples)
                    /\ lastAppleTime' = lastAppleTime
                    /\ appleInterval' = appleInterval]_vars
    /\ [](stage = "created"
            => appleInterval
                 = Max(MinInterval, InitialInterval - IntervalStep * spawned))

\* A frame of an Active game at the floor in which exactly the interval
\* had elapsed since the last spawn: no apple was spawned.
C13_Witness ==
    /\ op = "frame" /\ issuedIn = "Active" /\ ~gameOver
    /\ appleInterval = MinInterval
    /\ spawned > (InitialInterval - MinInterval) \div IntervalStep
    /\ time - lastAppleTime = appleInterval

\* C14: an apple is spawned with vertical speed 150 + 2 * score, and its
\* speed is the same for as long as it is in the collection; so no apple
\* is faster than 150 + 2 * the current score.
C14_SpeedFrozenAtSpawn ==
    /\ [][\A i \in 1..Len(apples') :
            IF apples'[i].id \in IdsOf(apples)
            THEN \E j \in 1..Len(apples) :
                    /\ apples[j].id = apples'[i].id
                    /\ apples[j].vy = apples'[i].vy
                    /\ apples[j].x = apples'[i].x
            ELSE /\ op' = "frame"
                 /\ apples'[i].vy = BaseSpeed + SpeedPerScore * score']_vars
    /\ [](\A i \in 1..Len(apples) :
            apples[i].vy <= BaseSpeed + SpeedPerScore * score)

\* Apples spawned at different scores are falling at different speeds, and
\* the older one has outlived a catch.
C14_Witness ==
    /\ op = "frame" /\ ~gameOver
    /\ \E i, j \in 1..Len(apples) :
          /\ apples[i].vy < apples[j].vy
          /\ apples[i].vy < BaseSpeed + SpeedPerScore * score
          /\ apples[i].y > SpawnY

\* C15: the start overlay is shown exactly when the game has not been
\* started; otherwise the game UI is shown, and the game-over panel is
\* shown exactly when the displayed gameOver is true, only over the game UI
\* and never together with the start overlay.
C15_DisplayPrecedence ==
    /\ StartOverlayShown <=> (mounted /\ ~gameStarted)
    /\ GameUiShown <=> (mounted /\ gameStarted)
    /\ GameOverPanelShown <=> (mounted /\ uiGameOver)
    /\ GameOverPanelShown => GameUiShown
    /\ ~(StartOverlayShown /\ GameOverPanelShown)
    /\ mounted => (StartOverlayShown \/ GameUiShown)

\* The poll displayed a game over: the panel is shown over the game UI.
C15_Witness ==
    /\ op = "poll" /\ GameOverPanelShown /\ GameUiShown
    /\ ~StartOverlayShown /\ gameOver

\* C16: after a frame of an Active game the plate's velocity is -300 if
\* left was held, otherwise 300 if right was held, otherwise 0, whatever it
\* was before; and the plate's body is always inside the 800-wide world.
C16_PlateVelocityAndBounds ==
    /\ [][(op' = "frame" /\ ~gameOver)
            => plateVX' = IF held'.left THEN -PlateSpeed
                          ELSE IF held'.right THEN PlateSpeed ELSE 0]_vars
    /\ [](/\ 0 <= plateX - PlateWidth \div 2
          /\ plateX + PlateWidth \div 2 <= WorldWidth)

\* Both keys were held in a frame of an Active game: the plate moves left,
\* and the world's bounds have stopped it at the left wall.
C16_Witness ==
    /\ op = "frame" /\ issuedIn = "Active"
    /\ held.left /\ held.right /\ plateVX = -PlateSpeed
    /\ plateX = PlateWidth \div 2

FallenCount(as) == Cardinality({i \in 1..Len(as) : as[i].y > BottomY})

\* C17 as stated: a frame performs the end-of-game step at most once,
\* however many apples are below the bottom.
C17_EndGameOncePerFrame ==
    [][(op' = "frame" /\ ~gameOver) => endGames' <= endGames + 1]_vars

\* C17 amended: a frame of an Active game calls endGame() once for every
\* apple below the bottom; the first call makes the game over, pauses
\* physics and publishes the state, and the further calls change nothing:
\* the frame ends in the state a single endGame() leaves.
C17_EndGamePerFallenAppleIdempotent ==
    /\ [][(op' = "frame" /\ ~gameOver)
            => /\ endGames' = endGames + FallenCount(apples')
               /\ gameOver' <=> FallenCount(apples') >= 1
               /\ gameOver'
                    => /\ paused'
                       /\ gameData' = [score |-> score', gameOver |-> TRUE]
                       /\ SameGame(EndGame(Scene'), Scene')
                       /\ EndGame(Scene').gameData = gameData']_vars
    /\ [][(gameOver /\ op' \notin RestartOps \cup DiscardOps)
            => endGames' = endGames]_vars

\* A frame of an Active game ended with several apples below the bottom.
C17_Witness ==
    /\ op = "frame" /\ issuedIn = "Active" /\ gameOver
    /\ FallenCount(apples) >= 2 /\ endGames = FallenCount(apples)

\* The polling timer of a created game is live.
PollLive == mounted /\ liveTimers > 0 /\ stage = "created"

\* What the shell displays is what the scene holds.
Synced == uiScore = score /\ uiGameOver = gameOver

\* C18: while the component is mounted and its timer fires, once the
\* scene's score and gameOver stay unchanged the displayed score and
\* gameOver come to equal them and stay equal; in particular a game over
\* is eventually shown as the game-over panel.
C18_PollMirrorsScene ==
    /\ \/ []<><<score' # score \/ gameOver' # gameOver>>_<<score, gameOver>>
       \/ <>[](PollLive => Synced)
    /\ (PollLive /\ gameOver) ~> (GameOverPanelShown \/ ~PollLive)

\* The poll displayed a game over and the final score of a game in which
\* apples were caught.
C18_Witness ==
    /\ op = "poll" /\ issuedIn = "GameOver" /\ PollLive
    /\ score >= 1 /\ uiScore = score /\ uiGameOver /\ gameOver

\* C19: once create() has run, between any two callbacks the shared
\* record holds the scene's score and gameOver.
C19_SharedRecordEqualsScene ==
    stage = "created" => gameData = [score |-> score, gameOver |-> gameOver]

\* A game with caught apples is over and the shared record shows both.
C19_Witness ==
    /\ op = "frame" /\ stage = "created" /\ score >= 1 /\ gameOver
    /\ gameData = [score |-> score, gameOver |-> TRUE]

\* C20: in every state the apples spawned in the session are the apples
\* caught (the score) and the apples in the collection; so the score never
\* exceeds the number spawned.
C20_SpawnedEqualsScorePlusApples ==
    /\ spawned = score + Len(apples)
    /\ score <= spawned

\* A game is over in which apples were spawned, some caught, and the rest,
\* the fallen one among them, are in the collection.
C20_Witness ==
    /\ op = "frame" /\ gameOver /\ score >= 1 /\ Len(apples) >= 2
    /\ spawned = score + Len(apples) /\ Fallen(apples)

\* C21 as stated: the first apple of a session is spawned by a frame whose
\* time exceeds the time the session began (create(), or the start or
\* restart command at frame time T) by more than the initial interval.
C21_FirstAppleAfterInitialInterval ==
    (stage = "created" /\ spawned >= 1)
        => lastAppleTime > startedAt + InitialInterval

\* C22: in every state the displayed score is at most the scene's score,
\* and a displayed game over is the scene's game over.
C22_DisplayNeverAhead ==
    /\ uiScore <= score
    /\ uiGameOver => gameOver

\* A score was displayed during the game; since then more apples were
\* caught and the game ended, and the display has not been updated yet.
C22_Witness ==
    /\ op = "frame" /\ gameOver /\ ~uiGameOver
    /\ uiScore >= 1 /\ uiScore < score

MinOf(S) == CHOOSE m \in S : \A n \in S : m <= n

\* Frames the model still delivers.
FramesLeft == (MaxTime - time) \div LongestDt(FrameInputs)

\* The least an apple falls in one frame.
SlowestStep(vy) == MinOf({Move(vy, in[2]) : in \in FrameInputs})

\* The frames still delivered carry the apple with this id past the bottom.
FallsInTime(i) ==
    \E j \in 1..Len(apples) :
        /\ apples[j].id = i
        /\ apples[j].y + FramesLeft * SlowestStep(apples[j].vy) > BottomY

\* Frames in which a session without a catch has spawned an apple and let
\* it pass the bottom.
FramesToFirstMiss ==
    (InitialInterval \div MinOf({in[1] : in \in FrameInputs}) + 1)
      + ((BottomY - SpawnY) \div SlowestStep(BaseSpeed) + 1)

\* C23: in an Active game to which frames keep being delivered, every
\* apple in the collection is eventually caught unless the game is over
\* first (by this apple or another passing the bottom), and a game in
\* which nothing is caught is eventually over.
C23_ApplesCaughtOrGameOver ==
    /\ \A i \in 1..MaxFrames :
          (stage = "created" /\ ~gameOver /\ FallsInTime(i))
            ~> (i \in caught \/ gameOver \/ stage # "created")
    /\ (stage = "created" /\ ~gameOver /\ score = 0
          /\ FramesLeft >= FramesToFirstMiss)
          ~> (score > 0 \/ gameOver \/ stage # "created")

\* A frame ended an Active game: an apple that was not caught passed the
\* bottom, after another had been caught, and frames are still delivered.
C23_Witness ==
    /\ op = "frame" /\ issuedIn = "Active" /\ gameOver
    /\ caught # {} /\ Fallen(apples) /\ FramesDelivered

====
